---- MODULE Spec2Model ----
(***************************************************************************)
(* GallerySlider of src/js/main.js (lines 425-542) as a state machine.     *)
(*                                                                         *)
(* The page supplies the elements the constructor looks up: the slider     *)
(* container, N slides, the optional previous/next buttons and the         *)
(* optional dots container.  Every listener registered by init() is an     *)
(* action; each action runs its whole handler to completion, as the        *)
(* browser's event loop does.  A method that raises a TypeError keeps the  *)
(* assignments it made before the faulting statement and sets lastThrew.   *)
(*                                                                         *)
(* The utilities throttle() and debounce() (lines 12-33) and the two       *)
(* scroll-driven widgets KPICounter (127-179) and ScrollAnimations         *)
(* (185-214) are modelled over a clock `now` and a set of pending          *)
(* setTimeout timers.  A timer fires when the clock has reached its due    *)
(* time and before the clock moves on.  Each widget has a specification of *)
(* its own, in which the variables of the others keep their initial value. *)
(***************************************************************************)
EXTENDS Integers, Sequences, FiniteSets, TLC

\* ---------------------------------------------------------------- bounds
MaxSlides == 3          \* the page holds 0..MaxSlides slides
MaxTimers == 2          \* at most MaxTimers setInterval calls are explored
MaxRun    == 4          \* longest recorded run of consecutive next/prev calls
MaxTime   == 6          \* the clock runs for MaxTime steps
MaxDelay  == 3          \* throttle / debounce delays 1..MaxDelay are explored
MaxCalls  == 3          \* at most MaxCalls setTimeout calls are explored
MaxElems  == 2          \* the page holds MaxElems animated elements

\* screen X coordinates a touch may report (differences 0, 1, 2, 49, 50, 51)
ScreenXs == {0, 49, 50, 51}

\* arguments a debounced call may carry
Args == {"a", "b"}

\* values of the data-aos-delay attribute (absent counts as 0), in ms
AosDelays == {0, 150}

\* keys a keydown event may carry
Keys == {"ArrowLeft", "ArrowRight", "Enter"}

\* ------------------------------------------------------ program constants
threshold == 50         \* handleSwipe: const threshold = 50
ScrollThrottle == 100   \* throttle(() => ..., 100) of the scroll listeners
NaN == -999             \* the value of x % 0 and of NaN + 1 in JavaScript
null == 0               \* autoPlayInterval = null (timer ids are positive)

VARIABLES
    N,                \* this.slides.length
    hasSlider,        \* this.slider is not null
    hasDots,          \* this.dotsContainer is not null
    hasPrevBtn,       \* this.prevBtn is not null
    hasNextBtn,       \* this.nextBtn is not null
    phase,            \* "new" | "ready" | "inert" | "failed"
    currentIndex,     \* this.currentIndex
    slideActive,      \* slideActive[i]: slide i carries class 'active'
    dots,             \* the .slider-dot children of the dots container, in
                      \* document order: [target, active]
    listeners,        \* listeners registered by init()
    touchStartX,      \* closure variable of init()
    touchEndX,        \* closure variable of init()
    autoPlayInterval, \* this.autoPlayInterval (null or a timer id)
    timers,           \* ids of the interval timers that are armed
    nextTimerId,      \* id the next setInterval call returns
    lastThrew,        \* the most recent run of showSlide (or of createDots,
                      \* in construction) ended in a TypeError
    lastEvent,        \* name of the last event or call           (history)
    ops,              \* navigation methods the last handler ran  (history)
    startCalled,      \* startAutoPlay() was called by a caller   (history)
    runKind,          \* "none" | "next" | "prev": kind of the run of
                      \* consecutive calls that began at index 0  (history)
    visited,          \* indices the run has visited, in order    (history)
    viaClick,         \* every call of the run was a control click (history)
    now,              \* new Date().getTime(), in ms
    thDelay,          \* throttle: the delay argument
    lastCall,         \* throttle: closure variable lastCall
    thExecs,          \* throttle: times at which func ran        (history)
    thOutcome,        \* throttle: "none" | "ran" | "dropped", the fate of
                      \* the last call                            (history)
    dbDelay,          \* debounce: the delay argument
    timeoutId,        \* debounce: closure variable timeoutId (0: undefined)
    pending,          \* pending setTimeout timers: [id, due, arg]
    nextTimeoutId,    \* id the next setTimeout call returns
    dbLastCall,       \* debounce: [time, arg] of the last call   (history)
    dbRuns,           \* debounce: [time, arg] of each run of func (history)
    inView,           \* inView[e]: isInViewport(e) at the current scroll
                      \* position
    aosDelay,         \* aosDelay[e]: the data-aos-delay attribute of e
    animated,         \* ScrollAnimations.animated
    aosClass,         \* elements that carry class 'aos-animate'
    scheduled,        \* scheduled[e]: reveal timeouts ever set for e (history)
    hasNumber,        \* hasNumber[e]: card e has a .kpi-number child
    hasAnimated,      \* KPICounter.hasAnimated
    started           \* started[e]: animateValue calls for card e (history)

vars == <<N, hasSlider, hasDots, hasPrevBtn, hasNextBtn, phase, currentIndex,
          slideActive, dots, listeners, touchStartX, touchEndX,
          autoPlayInterval, timers, nextTimerId, lastThrew, lastEvent, ops,
          startCalled, runKind, visited, viaClick,
          now, thDelay, lastCall, thExecs, thOutcome,
          dbDelay, timeoutId, pending, nextTimeoutId, dbLastCall, dbRuns,
          inView, aosDelay, animated, aosClass, scheduled,
          hasNumber, hasAnimated, started>>

page    == <<N, hasSlider, hasDots, hasPrevBtn, hasNextBtn>>
touch   == <<touchStartX, touchEndX>>
autoVar == <<autoPlayInterval, timers, nextTimerId, startCalled>>
runVars == <<runKind, visited, viaClick>>

sliderVars == <<N, hasSlider, hasDots, hasPrevBtn, hasNextBtn, phase,
                currentIndex, slideActive, dots, listeners, touchStartX,
                touchEndX, autoPlayInterval, timers, nextTimerId, lastThrew,
                lastEvent, ops, startCalled, runKind, visited, viaClick>>
throttleVars == <<thDelay, lastCall, thExecs, thOutcome>>
debounceVars == <<dbDelay, timeoutId, dbLastCall, dbRuns>>
timeoutVars  == <<pending, nextTimeoutId>>
aosVars      == <<aosDelay, animated, aosClass, scheduled>>
kpiVars      == <<hasNumber, hasAnimated, started>>
utilVars     == <<now, throttleVars, debounceVars, timeoutVars, inView,
                  aosVars, kpiVars>>

Elems == 1 .. MaxElems

Indices == 0 .. (N - 1)

\* ------------------------------------------------------------ arithmetic
Abs(x) == IF x < 0 THEN -x ELSE x

\* JavaScript a + b on numbers: NaN is absorbing
JsAdd(a, b) == IF a = NaN \/ b = NaN THEN NaN ELSE a + b

\* JavaScript a % n: NaN for n = 0, otherwise the remainder with the sign of
\* the dividend
JsRem(a, n) ==
    IF a = NaN \/ n = NaN \/ n = 0 THEN NaN
    ELSE IF a >= 0 THEN a % n ELSE -((-a) % n)

\* --------------------------------------------------------- object state
\* The fields and DOM marks a method reads and writes, as one record, so that
\* methods compose; threw records a TypeError raised on the way.
Self ==
    [currentIndex     |-> currentIndex,
     slideActive      |-> slideActive,
     dots             |-> dots,
     listeners        |-> listeners,
     autoPlayInterval |-> autoPlayInterval,
     timers           |-> timers,
     nextTimerId      |-> nextTimerId,
     threw            |-> FALSE]

\* createDots() with every click closure seeing the last index
createDotsLateBinding(s) ==
    IF N = 0 THEN s
    ELSE IF ~hasDots THEN [s EXCEPT !.threw = TRUE]
    ELSE [s EXCEPT !.dots =
            s.dots \o [k \in 1 .. N |-> [target |-> N - 1, active |-> FALSE]]]

\* createDots(): one dot per slide, wired to showSlide(index), appended to
\* the dots container; appendChild on a missing container raises.
createDots(s) ==
    IF N = 0 THEN s
    ELSE IF ~hasDots THEN [s EXCEPT !.threw = TRUE]
    ELSE [s EXCEPT !.dots =
            s.dots \o [k \in 1 .. N |-> [target |-> k - 1, active |-> FALSE]]]

\* showSlide(index) without the removal of 'active' from all slides
showSlideNoClear(s, index) ==
    LET s1 == [s EXCEPT !.currentIndex = index]
    IN  IF index \notin Indices THEN [s1 EXCEPT !.threw = TRUE]
        ELSE LET s2 == [s1 EXCEPT !.slideActive[index] = TRUE]
             IN  IF ~hasDots THEN [s2 EXCEPT !.threw = TRUE]
                 ELSE [s2 EXCEPT !.dots =
                         [k \in 1 .. Len(s.dots) |->
                            [s.dots[k] EXCEPT !.active = (k - 1 = index)]]]

\* showSlide(index): clear every slide, store the index, mark slides[index],
\* then set each dot's mark to (i === currentIndex).  slides[index] is
\* undefined outside 0..N-1 and the dots container may be null: both raise
\* after the statements before them have run.
showSlide(s, index) ==
    LET cleared == [i \in Indices |-> FALSE]
        s1      == [s EXCEPT !.slideActive = cleared, !.currentIndex = index]
    IN  IF index \notin Indices THEN [s1 EXCEPT !.threw = TRUE]
        ELSE LET s2 == [s1 EXCEPT !.slideActive[index] = TRUE]
             IN  IF ~hasDots THEN [s2 EXCEPT !.threw = TRUE]
                 ELSE [s2 EXCEPT !.dots =
                         [k \in 1 .. Len(s.dots) |->
                            [s.dots[k] EXCEPT !.active = (k - 1 = index)]]]

\* nextSlide() without the wraparound
nextSlideNoWrap(s) == showSlide(s, JsAdd(s.currentIndex, 1))

\* nextSlide(): (currentIndex + 1) % slides.length
nextSlide(s) == showSlide(s, JsRem(JsAdd(s.currentIndex, 1), N))

\* prevSlide() without adding slides.length before the remainder
prevSlideNoAdd(s) == showSlide(s, JsRem(JsAdd(s.currentIndex, -1), N))

\* prevSlide(): (currentIndex - 1 + slides.length) % slides.length
prevSlide(s) == showSlide(s, JsRem(JsAdd(JsAdd(s.currentIndex, -1), N), N))

\* handleSwipe with the threshold itself counted as a swipe
handleSwipeInclusive(startX, endX) ==
    LET diff == startX - endX
    IN  IF Abs(diff) >= threshold
        THEN IF diff > 0 THEN <<"next">> ELSE <<"prev">>
        ELSE <<>>

\* handleSwipe(startX, endX): the navigation calls the swipe makes
handleSwipe(startX, endX) ==
    LET diff == startX - endX
    IN  IF Abs(diff) > threshold
        THEN IF diff > 0 THEN <<"next">> ELSE <<"prev">>
        ELSE <<>>

\* keydown listener with the two arrow keys exchanged
keydownSwapped(key) ==
    (IF key = "ArrowRight" THEN <<"prev">> ELSE <<>>)
    \o (IF key = "ArrowLeft" THEN <<"next">> ELSE <<>>)

\* keydown listener: two independent tests of e.key
keydown(key) ==
    (IF key = "ArrowLeft" THEN <<"prev">> ELSE <<>>)
    \o (IF key = "ArrowRight" THEN <<"next">> ELSE <<>>)

\* startAutoPlay(): arm a new interval timer and store its id
startAutoPlay(s) ==
    [s EXCEPT !.autoPlayInterval = s.nextTimerId,
              !.timers = s.timers \cup {s.nextTimerId},
              !.nextTimerId = s.nextTimerId + 1]

\* stopAutoPlay(): clear the timer whose id is stored, if any
stopAutoPlay(s) ==
    IF s.autoPlayInterval # null
    THEN [s EXCEPT !.timers = s.timers \ {s.autoPlayInterval},
                   !.autoPlayInterval = null]
    ELSE s

\* init() with the call of startAutoPlay() left in
initAutoPlay(s) ==
    LET d == createDots(s)
    IN  IF d.threw THEN d
        ELSE LET r == showSlide(d, 0)
             IN  IF r.threw THEN r
                 ELSE startAutoPlay(
                        [r EXCEPT !.listeners =
                           (IF hasPrevBtn THEN {"prevClick"} ELSE {})
                           \cup (IF hasNextBtn THEN {"nextClick"} ELSE {})
                           \cup {"keydown", "touchstart", "touchend"}])

\* init(): dots, first slide, then the listeners; an exception leaves the
\* rest of init() undone.  Auto-play and the hover listeners are commented
\* out in the source.
init(s) ==
    LET d == createDots(s)
    IN  IF d.threw THEN d
        ELSE LET r == showSlide(d, 0)
             IN  IF r.threw THEN r
                 ELSE [r EXCEPT !.listeners =
                         (IF hasPrevBtn THEN {"prevClick"} ELSE {})
                         \cup (IF hasNextBtn THEN {"nextClick"} ELSE {})
                         \cup {"keydown", "touchstart", "touchend"}]

\* constructor: fields, the guard on a missing slider or no slides, init()
constructor(s) ==
    LET s0 == [s EXCEPT !.currentIndex = 0, !.autoPlayInterval = null]
    IN  IF ~hasSlider \/ N = 0 THEN s0 ELSE init(s0)

\* the methods a handler runs, in order; an exception ends the handler
RECURSIVE RunOps(_, _)
RunOps(s, seq) ==
    IF seq = <<>> \/ s.threw THEN s
    ELSE RunOps(IF Head(seq) = "next" THEN nextSlide(s) ELSE prevSlide(s),
                Tail(seq))

\* ---------------------------------------------------------------- history
\* The run of consecutive same-kind navigation calls that began at index 0.
Track(called, newIndex, isClick) ==
    IF called = <<>> THEN UNCHANGED runVars
    ELSE LET kind == called[1]
         IN  IF kind \notin {"next", "prev"}
             THEN runKind' = "none" /\ visited' = <<>> /\ viaClick' = FALSE
             ELSE IF runKind = kind /\ Len(visited) < MaxRun
             THEN /\ runKind' = kind
                  /\ visited' = Append(visited, newIndex)
                  /\ viaClick' = (viaClick /\ isClick)
             ELSE IF currentIndex = 0
             THEN /\ runKind' = kind
                  /\ visited' = <<newIndex>>
                  /\ viaClick' = isClick
             ELSE runKind' = "none" /\ visited' = <<>> /\ viaClick' = FALSE

\* store the record a method returned, and the history of the step
Commit(s, event, called, isClick) ==
    /\ currentIndex' = s.currentIndex
    /\ slideActive' = s.slideActive
    /\ dots' = s.dots
    /\ listeners' = s.listeners
    /\ autoPlayInterval' = s.autoPlayInterval
    /\ timers' = s.timers
    /\ nextTimerId' = s.nextTimerId
    /\ lastThrew' = (s.threw \/ (called = <<>> /\ lastThrew))
    /\ lastEvent' = event
    /\ ops' = called
    /\ Track(called, s.currentIndex, isClick)
    /\ UNCHANGED utilVars

\* ------------------------------------------------------------------ Init
\* the utilities and scroll widgets before anything has called them
ThrottleIdle ==
    thDelay = 1 /\ lastCall = 0 /\ thExecs = <<>> /\ thOutcome = "none"

DebounceIdle ==
    dbDelay = 1 /\ timeoutId = 0 /\ dbLastCall = [time |-> 0, arg |-> "none"]
    /\ dbRuns = <<>>

TimeoutsIdle == pending = {} /\ nextTimeoutId = 1

AosIdle ==
    /\ aosDelay = [e \in Elems |-> 0]
    /\ animated = {}
    /\ aosClass = {}
    /\ scheduled = [e \in Elems |-> 0]

KpiIdle ==
    /\ hasNumber = [e \in Elems |-> TRUE]
    /\ hasAnimated = {}
    /\ started = [e \in Elems |-> 0]

ViewIdle == inView = [e \in Elems |-> FALSE]

\* The page before DOMContentLoaded: any number of slides, any of the looked
\* up elements present or missing, any slide pre-marked active in the markup,
\* an empty dots container.
Init ==
    /\ N \in 0 .. MaxSlides
    /\ hasSlider \in BOOLEAN
    /\ hasDots \in BOOLEAN
    /\ hasPrevBtn \in BOOLEAN
    /\ hasNextBtn \in BOOLEAN
    /\ phase = "new"
    /\ currentIndex = 0
    /\ slideActive \in [Indices -> BOOLEAN]
    /\ dots = <<>>
    /\ listeners = {}
    /\ touchStartX = 0
    /\ touchEndX = 0
    /\ autoPlayInterval = null
    /\ timers = {}
    /\ nextTimerId = 1
    /\ lastThrew = FALSE
    /\ lastEvent = "none"
    /\ ops = <<>>
    /\ startCalled = FALSE
    /\ runKind = "none"
    /\ visited = <<>>
    /\ viaClick = FALSE
    /\ now = 0
    /\ ThrottleIdle /\ DebounceIdle /\ TimeoutsIdle
    /\ ViewIdle /\ AosIdle /\ KpiIdle

\* --------------------------------------------------------------- actions
\* new GallerySlider() in the DOMContentLoaded handler
Construct ==
    /\ phase = "new"
    /\ LET s == constructor(Self)
       IN  /\ phase' = IF s.threw THEN "failed"
                       ELSE IF ~hasSlider \/ N = 0 THEN "inert" ELSE "ready"
           /\ Commit(s, "Construct", <<>>, FALSE)
    /\ UNCHANGED <<page, touch, startCalled>>

\* click on .slider-btn-prev
ClickPrev ==
    /\ "prevClick" \in listeners
    /\ Commit(prevSlide(Self), "ClickPrev", <<"prev">>, TRUE)
    /\ UNCHANGED <<page, phase, touch, startCalled>>

\* click on .slider-btn-next
ClickNext ==
    /\ "nextClick" \in listeners
    /\ Commit(nextSlide(Self), "ClickNext", <<"next">>, TRUE)
    /\ UNCHANGED <<page, phase, touch, startCalled>>

\* click on the k-th dot of the container
ClickDot(k) ==
    /\ k \in 1 .. Len(dots)
    /\ Commit(showSlide(Self, dots[k].target), "ClickDot", <<"show">>, FALSE)
    /\ UNCHANGED <<page, phase, touch, startCalled>>

\* keydown anywhere in the document
KeyDown(key) ==
    /\ "keydown" \in listeners
    /\ Commit(RunOps(Self, keydown(key)), "KeyDown", keydown(key), FALSE)
    /\ UNCHANGED <<page, phase, touch, startCalled>>

\* touchstart on the slider
TouchStart(x) ==
    /\ "touchstart" \in listeners
    /\ touchStartX' = x
    /\ Commit(Self, "TouchStart", <<>>, FALSE)
    /\ UNCHANGED <<page, phase, touchEndX, startCalled>>

\* touchend on the slider
TouchEnd(x) ==
    /\ "touchend" \in listeners
    /\ touchEndX' = x
    /\ LET called == handleSwipe(touchStartX, x)
       IN  Commit(RunOps(Self, called), "TouchEnd", called, FALSE)
    /\ UNCHANGED <<page, phase, touchStartX, startCalled>>

\* the callback of an armed interval timer
TimerTick(id) ==
    /\ id \in timers
    /\ Commit(nextSlide(Self), "TimerTick", <<"next">>, FALSE)
    /\ UNCHANGED <<page, phase, touch, startCalled>>

\* a caller holding the object invokes nextSlide()
CallNextSlide ==
    /\ phase \in {"ready", "inert"}
    /\ Commit(nextSlide(Self), "CallNextSlide", <<"next">>, FALSE)
    /\ UNCHANGED <<page, phase, touch, startCalled>>

\* a caller holding the object invokes prevSlide()
CallPrevSlide ==
    /\ phase \in {"ready", "inert"}
    /\ Commit(prevSlide(Self), "CallPrevSlide", <<"prev">>, FALSE)
    /\ UNCHANGED <<page, phase, touch, startCalled>>

\* a caller holding the object invokes showSlide(index), in range or not
CallShowSlide(index) ==
    /\ phase \in {"ready", "inert"}
    /\ Commit(showSlide(Self, index), "CallShowSlide", <<"show">>, FALSE)
    /\ UNCHANGED <<page, phase, touch, startCalled>>

\* a caller holding the object invokes startAutoPlay()
CallStartAutoPlay ==
    /\ phase \in {"ready", "inert"}
    /\ nextTimerId <= MaxTimers
    /\ startCalled' = TRUE
    /\ Commit(startAutoPlay(Self), "CallStartAutoPlay", <<>>, FALSE)
    /\ UNCHANGED <<page, phase, touch>>

\* a caller holding the object invokes stopAutoPlay()
CallStopAutoPlay ==
    /\ phase \in {"ready", "inert"}
    /\ Commit(stopAutoPlay(Self), "CallStopAutoPlay", <<>>, FALSE)
    /\ UNCHANGED <<page, phase, touch, startCalled>>

\* Navigation: the listeners of init() and the navigation methods called by
\* a holder of the object.  No timer exists, since nothing calls
\* startAutoPlay().
Next ==
    \/ Construct
    \/ ClickPrev
    \/ ClickNext
    \/ \E k \in 1 .. MaxSlides : ClickDot(k)
    \/ \E key \in Keys : KeyDown(key)
    \/ \E x \in ScreenXs : TouchStart(x)
    \/ \E x \in ScreenXs : TouchEnd(x)
    \/ CallNextSlide
    \/ CallPrevSlide
    \/ \E index \in -1 .. MaxSlides : CallShowSlide(index)

Spec == Init /\ [][Next]_vars

\* Navigation within the contract of showSlide(): as Next, but showSlide()
\* is reached only through the indicators, nextSlide() and prevSlide().
NextInRange ==
    \/ Construct
    \/ ClickPrev
    \/ ClickNext
    \/ \E k \in 1 .. MaxSlides : ClickDot(k)
    \/ \E key \in Keys : KeyDown(key)
    \/ \E x \in ScreenXs : TouchStart(x)
    \/ \E x \in ScreenXs : TouchEnd(x)
    \/ CallNextSlide
    \/ CallPrevSlide

SpecInRange == Init /\ [][NextInRange]_vars

\* Auto-play: the page as deployed (only the listeners reach the object)
\* together with a caller of startAutoPlay() / stopAutoPlay() and the ticks
\* of the timers these arm.
NextAuto ==
    \/ Construct
    \/ ClickPrev
    \/ ClickNext
    \/ \E k \in 1 .. MaxSlides : ClickDot(k)
    \/ \E key \in Keys : KeyDown(key)
    \/ \E x \in ScreenXs : TouchStart(x)
    \/ \E x \in ScreenXs : TouchEnd(x)
    \/ \E id \in 1 .. MaxTimers : TimerTick(id)
    \/ CallStartAutoPlay
    \/ CallStopAutoPlay

SpecAuto == Init /\ [][NextAuto]_vars

\* a page without a gallery, in the specifications of the other widgets
SliderIdle ==
    /\ N = 0 /\ hasSlider = FALSE /\ hasDots = FALSE
    /\ hasPrevBtn = FALSE /\ hasNextBtn = FALSE
    /\ phase = "new" /\ currentIndex = 0 /\ slideActive = <<>>
    /\ dots = <<>> /\ listeners = {}
    /\ touchStartX = 0 /\ touchEndX = 0
    /\ autoPlayInterval = null /\ timers = {} /\ nextTimerId = 1
    /\ lastThrew = FALSE /\ lastEvent = "none" /\ ops = <<>>
    /\ startCalled = FALSE
    /\ runKind = "none" /\ visited = <<>> /\ viaClick = FALSE

\* ============================================================== throttle
\* throttle(func, delay) with <= in place of <
throttledLe(lc, t, delay) ==
    IF t - lc <= delay
    THEN [run |-> FALSE, lastCall |-> lc]
    ELSE [run |-> TRUE, lastCall |-> t]

\* The function throttle(func, delay) returns, called at time t with the
\* closure variable lastCall = lc: whether func runs, and the new lastCall.
throttled(lc, t, delay) ==
    IF t - lc < delay
    THEN [run |-> FALSE, lastCall |-> lc]
    ELSE [run |-> TRUE, lastCall |-> t]

\* throttle(func, delay) for any delay, first called at any time
InitThrottle ==
    /\ SliderIdle /\ DebounceIdle /\ TimeoutsIdle
    /\ ViewIdle /\ AosIdle /\ KpiIdle
    /\ now \in 0 .. 1
    /\ thDelay \in 1 .. MaxDelay
    /\ lastCall = 0
    /\ thExecs = <<>>
    /\ thOutcome = "none"

\* one unit of time passes; no timer is overdue
Tick ==
    /\ now < MaxTime
    /\ \A t \in pending : t.due > now
    /\ now' = now + 1
    /\ UNCHANGED <<sliderVars, throttleVars, debounceVars, timeoutVars,
                   inView, aosVars, kpiVars>>

\* a call of the throttled function
ThrottledCall ==
    /\ LET r == throttled(lastCall, now, thDelay)
       IN  /\ lastCall' = r.lastCall
           /\ thExecs' = IF r.run THEN Append(thExecs, now) ELSE thExecs
           /\ thOutcome' = IF r.run THEN "ran" ELSE "dropped"
    /\ UNCHANGED <<sliderVars, now, thDelay, debounceVars, timeoutVars,
                   inView, aosVars, kpiVars>>

NextThrottle == Tick \/ ThrottledCall

SpecThrottle == InitThrottle /\ [][NextThrottle]_vars

\* ============================================================== debounce
\* clearTimeout(id): a no-op for an id that is undefined or has fired
clearTimeout(P, id) == {t \in P : t.id # id}

\* setTimeout(callback, delay) at time t, returning id
setTimeout(P, id, t, delay, arg) ==
    P \cup {[id |-> id, due |-> t + delay, arg |-> arg]}

\* debounce(func, delay) without the clearTimeout
debouncedNoClear(tid, P, nid, t, delay, arg) ==
    [timeoutId     |-> nid,
     pending       |-> setTimeout(P, nid, t, delay, arg),
     nextTimeoutId |-> nid + 1]

\* The function debounce(func, delay) returns, called at time t with args:
\* clear the timer of the previous call, arm one that runs func(args).
debounced(tid, P, nid, t, delay, arg) ==
    [timeoutId     |-> nid,
     pending       |-> setTimeout(clearTimeout(P, tid), nid, t, delay, arg),
     nextTimeoutId |-> nid + 1]

\* debounce(func, delay) for any delay
InitDebounce ==
    /\ SliderIdle /\ ThrottleIdle /\ TimeoutsIdle
    /\ ViewIdle /\ AosIdle /\ KpiIdle
    /\ now = 0
    /\ dbDelay \in 1 .. MaxDelay
    /\ timeoutId = 0
    /\ dbLastCall = [time |-> 0, arg |-> "none"]
    /\ dbRuns = <<>>

\* a call of the debounced function (the resize listener, line 576)
DebouncedCall(arg) ==
    /\ nextTimeoutId <= MaxCalls
    /\ now + dbDelay <= MaxTime
    /\ LET r == debounced(timeoutId, pending, nextTimeoutId, now, dbDelay, arg)
       IN  /\ timeoutId' = r.timeoutId
           /\ pending' = r.pending
           /\ nextTimeoutId' = r.nextTimeoutId
    /\ dbLastCall' = [time |-> now, arg |-> arg]
    /\ UNCHANGED <<sliderVars, now, throttleVars, dbDelay, dbRuns,
                   inView, aosVars, kpiVars>>

\* a due timer runs () => func.apply(this, args)
DebounceFire ==
    /\ \E t \in pending :
          /\ t.due <= now
          /\ pending' = pending \ {t}
          /\ dbRuns' = Append(dbRuns, [time |-> now, arg |-> t.arg])
    /\ UNCHANGED <<sliderVars, now, throttleVars, dbDelay, timeoutId,
                   dbLastCall, nextTimeoutId, inView, aosVars, kpiVars>>

NextDebounce ==
    \/ Tick
    \/ \E arg \in Args : DebouncedCall(arg)
    \/ DebounceFire

\* time passes and the event loop runs every due timer
SpecDebounce ==
    InitDebounce /\ [][NextDebounce]_vars
    /\ WF_vars(Tick) /\ WF_vars(DebounceFire)

\* ======================================================== scroll widgets
\* The clock of the scroll widgets moves in steps of half the throttle delay
\* and starts well after the epoch, as Date.getTime() does: any instant at
\* least ScrollThrottle after 0 behaves alike.
ScrollStep == ScrollThrottle \div 2
PageLoad   == 10 * ScrollThrottle

\* positions of the elements relative to the viewport a scroll may produce
Views == [Elems -> BOOLEAN]

ScrollTick ==
    /\ now < PageLoad + MaxTime * ScrollStep
    /\ \A t \in pending : t.due > now
    /\ now' = now + ScrollStep
    /\ UNCHANGED <<sliderVars, throttleVars, debounceVars, timeoutVars,
                   inView, aosVars, kpiVars>>

\* ============================================================ KPICounter
\* animateCounters() without hasAnimated.add(counter)
RECURSIVE animateCountersNoAddFrom(_, _, _)
animateCountersNoAddFrom(e, view, st) ==
    IF e > MaxElems \/ st.threw THEN st
    ELSE IF e \in st.hasAnimated \/ ~view[e]
    THEN animateCountersNoAddFrom(e + 1, view, st)
    ELSE IF ~hasNumber[e] THEN [st EXCEPT !.threw = TRUE]
    ELSE animateCountersNoAddFrom(e + 1, view,
            [st EXCEPT !.started[e] = @ + 1])

animateCountersNoAdd(view, st) == animateCountersNoAddFrom(1, view, st)

\* counters.forEach of animateCounters(), from card e on: skip a card in
\* hasAnimated; a card in the viewport is added to hasAnimated, then its
\* .kpi-number is read (a TypeError when the card has none, which ends the
\* forEach), then animateValue() starts.
RECURSIVE animateCountersFrom(_, _, _)
animateCountersFrom(e, view, st) ==
    IF e > MaxElems \/ st.threw THEN st
    ELSE IF e \in st.hasAnimated \/ ~view[e]
    THEN animateCountersFrom(e + 1, view, st)
    ELSE LET a == [st EXCEPT !.hasAnimated = @ \cup {e}]
         IN  IF ~hasNumber[e] THEN [a EXCEPT !.threw = TRUE]
             ELSE animateCountersFrom(e + 1, view,
                     [a EXCEPT !.started[e] = @ + 1])

\* animateCounters()
animateCounters(view, st) == animateCountersFrom(1, view, st)

\* new KPICounter(): an empty hasAnimated, the throttled scroll listener,
\* then the initial animateCounters()
InitKpi ==
    /\ SliderIdle /\ DebounceIdle /\ TimeoutsIdle /\ AosIdle
    /\ now = PageLoad
    /\ thDelay = ScrollThrottle
    /\ lastCall = 0
    /\ thExecs = <<>>
    /\ thOutcome = "none"
    /\ inView \in Views
    /\ hasNumber \in [Elems -> BOOLEAN]
    /\ LET r == animateCounters(inView,
                    [hasAnimated |-> {}, started |-> [e \in Elems |-> 0],
                     threw |-> FALSE])
       IN  hasAnimated = r.hasAnimated /\ started = r.started

\* a scroll event: the page is at a new position and the throttled listener
\* runs animateCounters() unless throttle drops the call
KpiScroll(view) ==
    /\ inView' = view
    /\ LET t == throttled(lastCall, now, thDelay)
           r == animateCounters(view,
                    [hasAnimated |-> hasAnimated, started |-> started,
                     threw |-> FALSE])
       IN  /\ lastCall' = t.lastCall
           /\ thExecs' = IF t.run THEN Append(thExecs, now) ELSE thExecs
           /\ thOutcome' = IF t.run THEN "ran" ELSE "dropped"
           /\ hasAnimated' = IF t.run THEN r.hasAnimated ELSE hasAnimated
           /\ started' = IF t.run THEN r.started ELSE started
    /\ UNCHANGED <<sliderVars, now, thDelay, debounceVars, timeoutVars,
                   aosVars, hasNumber>>

NextKpi ==
    \/ ScrollTick
    \/ \E view \in Views : KpiScroll(view)

SpecKpi == InitKpi /\ [][NextKpi]_vars

\* ====================================================== ScrollAnimations
\* elements.forEach of checkElements() at time t, from element e on: skip an
\* element in animated; for an element in the viewport set a timeout of its
\* data-aos-delay whose callback adds the class and records the element.
RECURSIVE checkElementsFrom(_, _, _, _)
checkElementsFrom(e, view, t, st) ==
    IF e > MaxElems THEN st
    ELSE IF e \in animated \/ ~view[e]
    THEN checkElementsFrom(e + 1, view, t, st)
    ELSE checkElementsFrom(e + 1, view, t,
            [st EXCEPT
               !.pending = setTimeout(@, st.nextTimeoutId, t, aosDelay[e], e),
               !.nextTimeoutId = @ + 1,
               !.scheduled[e] = @ + 1])

\* checkElements()
checkElements(view, t, st) == checkElementsFrom(1, view, t, st)

\* new ScrollAnimations(): an empty animated, the throttled scroll listener,
\* then the initial checkElements()
InitAos ==
    /\ SliderIdle /\ DebounceIdle /\ KpiIdle
    /\ now = PageLoad
    /\ thDelay = ScrollThrottle
    /\ lastCall = 0
    /\ thExecs = <<>>
    /\ thOutcome = "none"
    /\ inView \in Views
    /\ aosDelay \in [Elems -> AosDelays]
    /\ animated = {}
    /\ aosClass = {}
    /\ LET r == checkElements(inView, now,
                    [pending |-> {}, nextTimeoutId |-> 1,
                     scheduled |-> [e \in Elems |-> 0]])
       IN  /\ pending = r.pending
           /\ nextTimeoutId = r.nextTimeoutId
           /\ scheduled = r.scheduled

\* a scroll event: the page is at a new position and the throttled listener
\* runs checkElements() unless throttle drops the call
AosScroll(view) ==
    /\ inView' = view
    /\ LET t == throttled(lastCall, now, thDelay)
           r == checkElements(view, now,
                    [pending |-> pending, nextTimeoutId |-> nextTimeoutId,
                     scheduled |-> scheduled])
       IN  /\ lastCall' = t.lastCall
           /\ thExecs' = IF t.run THEN Append(thExecs, now) ELSE thExecs
           /\ thOutcome' = IF t.run THEN "ran" ELSE "dropped"
           /\ pending' = IF t.run THEN r.pending ELSE pending
           /\ nextTimeoutId' = IF t.run THEN r.nextTimeoutId
                                ELSE nextTimeoutId
           /\ scheduled' = IF t.run THEN r.scheduled ELSE scheduled
    /\ UNCHANGED <<sliderVars, now, thDelay, debounceVars, aosDelay,
                   animated, aosClass, kpiVars>>

\* a due reveal timeout runs: classList.add('aos-animate'), animated.add
AosReveal ==
    /\ \E t \in pending :
          /\ t.due <= now
          /\ pending' = pending \ {t}
          /\ aosClass' = aosClass \cup {t.arg}
          /\ animated' = animated \cup {t.arg}
    /\ UNCHANGED <<sliderVars, now, throttleVars, debounceVars,
                   nextTimeoutId, inView, aosDelay, scheduled, kpiVars>>

NextAos ==
    \/ ScrollTick
    \/ \E view \in Views : AosScroll(view)
    \/ AosReveal

SpecAos == InitAos /\ [][NextAos]_vars

\* --------------------------------------------------------------- typing
TypeOK ==
    /\ N \in 0 .. MaxSlides
    /\ phase \in {"new", "ready", "inert", "failed"}
    /\ currentIndex \in (-1 .. MaxSlides) \cup {NaN}
    /\ DOMAIN slideActive = Indices
    /\ timers \subseteq 1 .. MaxTimers
    /\ autoPlayInterval \in 0 .. MaxTimers
    /\ Len(visited) <= MaxRun
    /\ touchStartX \in ScreenXs \cup {0}
    /\ touchEndX \in ScreenXs \cup {0}

\* ================================================================ claims
InputEvents == {"ClickPrev", "ClickNext", "ClickDot", "KeyDown", "TouchEnd"}

ActiveSlides == {i \in Indices : slideActive[i]}
ActiveDots   == {k \in 1 .. Len(dots) : dots[k].active}

\* C1: once construction has run init() to its end (N >= 1), and unless the
\* last showSlide was handed an index outside 0..N-1 and raised, exactly one
\* slide and exactly one indicator are marked active, both at currentIndex.
C1_OneActiveAtCurrentIndex ==
    (phase = "ready" /\ ~lastThrew) =>
        /\ N >= 1
        /\ currentIndex \in Indices
        /\ ActiveSlides = {currentIndex}
        /\ ActiveDots = {currentIndex + 1}

C1_Witness ==
    /\ phase = "ready"
    /\ N = 3
    /\ lastEvent = "TouchEnd"
    /\ ops = <<"prev">>
    /\ currentIndex = 2
    /\ ActiveSlides = {2}
    /\ ActiveDots = {3}

\* C2: a run of k consecutive nextSlide() calls that began at index 0 leaves
\* currentIndex = k mod N, a run of k prevSlide() calls leaves (-k) mod N,
\* and the result is in 0..N-1 (N >= 1).
C2_RunIndex ==
    (N >= 1 /\ runKind # "none") =>
        LET k == Len(visited)
        IN  /\ k >= 1
            /\ currentIndex = visited[k]
            /\ currentIndex \in Indices
            /\ runKind = "next" => currentIndex = k % N
            /\ runKind = "prev" => currentIndex = (N - (k % N)) % N

C2_Witness ==
    /\ N = 3
    /\ runKind = "prev"
    /\ Len(visited) = 4
    /\ currentIndex = 2

\* C3: nextSlide() at the last index moves to 0, prevSlide() at index 0 moves
\* to N-1 (N = 1 included), and N next-control clicks from index 0 visit
\* 1, 2, ..., N-1, 0 in that order.
C3_Step ==
    /\ (phase = "ready" /\ currentIndex = N - 1 /\ ops' = <<"next">>)
          => (currentIndex' = 0 /\ ActiveSlides' = {0})
    /\ (phase = "ready" /\ currentIndex = 0 /\ ops' = <<"prev">>)
          => (currentIndex' = N - 1 /\ ActiveSlides' = {N - 1})
    /\ (phase' = "ready" /\ runKind' = "next" /\ viaClick'
           /\ Len(visited') = N)
          => visited' = [k \in 1 .. N |-> k % N]

C3_Wraparound == [][C3_Step]_vars

C3_Witness ==
    /\ phase = "ready"
    /\ N = 3
    /\ runKind = "next"
    /\ viaClick
    /\ visited = <<1, 2, 0>>
    /\ currentIndex = 0

\* C4: with N = 0 slides construction creates no indicators and attaches no
\* listeners, and nextSlide(), prevSlide() and showSlide() afterwards raise
\* nothing and leave currentIndex and every active mark as they were.
C4_ZeroSlidesInert ==
    (N = 0 /\ phase # "new") =>
        /\ phase = "inert"
        /\ dots = <<>>
        /\ listeners = {}
        /\ ~lastThrew
        /\ currentIndex = 0

\* C5: with N >= 1 slides and no indicator container, construction still
\* shows the first slide and attaches the navigation listeners, and every
\* later state has one active slide at currentIndex.
C5_NavigationWithoutDots ==
    (hasSlider /\ N >= 1 /\ ~hasDots /\ phase # "new") =>
        /\ phase = "ready"
        /\ {"keydown", "touchstart", "touchend"} \subseteq listeners
        /\ hasPrevBtn => "prevClick" \in listeners
        /\ hasNextBtn => "nextClick" \in listeners
        /\ ActiveSlides = {currentIndex}

\* C6: a swipe runs exactly one nextSlide() when start - end > 50, exactly
\* one prevSlide() when end - start > 50, and nothing when the distance is
\* at most 50.
C6_Step ==
    lastEvent' = "TouchEnd" =>
        LET start == touchStartX
            end   == touchEndX'
        IN  /\ touchStartX' = start
            /\ (start - end > 50) =>
                  /\ ops' = <<"next">>
                  /\ currentIndex \in Indices
                        => currentIndex' = (currentIndex + 1) % N
            /\ (end - start > 50) =>
                  /\ ops' = <<"prev">>
                  /\ currentIndex \in Indices
                        => currentIndex' = (currentIndex + N - 1) % N
            /\ (start - end <= 50 /\ end - start <= 50) =>
                  /\ ops' = <<>>
                  /\ UNCHANGED <<currentIndex, slideActive, dots>>

C6_SwipeThreshold == [][C6_Step]_vars

C6_Witness ==
    /\ lastEvent = "TouchEnd"
    /\ touchStartX - touchEndX = 51
    /\ ops = <<"next">>
    /\ N = 3
    /\ currentIndex = 2

\* C7: whatever number of startAutoPlay() calls were made, at most one
\* interval timer is armed.
C7_AtMostOneTimer == Cardinality(timers) <= 1

\* C8: when stopAutoPlay() has returned no timer is armed and
\* autoPlayInterval is null.
C8_StopLeavesNoTimer ==
    lastEvent = "CallStopAutoPlay" =>
        (timers = {} /\ autoPlayInterval = null)

\* C9: as long as no caller has invoked startAutoPlay(), autoPlayInterval is
\* null, no timer is armed, no timer tick happens, and every step that
\* changes currentIndex is a click, an arrow-key press or a swipe.
C9_Step ==
    ~startCalled' =>
        /\ autoPlayInterval' = null
        /\ timers' = {}
        /\ lastEvent' # "TimerTick"
        /\ currentIndex' # currentIndex
              => lastEvent' \in InputEvents

C9_NoAutoRotationByDefault == [][C9_Step]_vars

C9_Witness ==
    /\ phase = "ready"
    /\ ~startCalled
    /\ lastEvent = "KeyDown"
    /\ ops = <<"next">>
    /\ currentIndex = 2
    /\ autoPlayInterval = null
    /\ timers = {}

\* C10: construction with N >= 1 slides (and an indicator container) creates
\* exactly N indicators in slide order, leaves currentIndex = 0 with slide 0
\* and indicator 0 active, and a click on indicator i performs showSlide(i)
\* from any state, leaving currentIndex = i.
C10_Step ==
    /\ (lastEvent' = "Construct" /\ hasSlider /\ hasDots /\ N >= 1) =>
          /\ phase' = "ready"
          /\ Len(dots') = N
          /\ \A k \in 1 .. N : dots'[k].target = k - 1
          /\ currentIndex' = 0
          /\ ActiveSlides' = {0}
          /\ ActiveDots' = {1}
    /\ \A k \in 1 .. MaxSlides :
          ClickDot(k) =>
              /\ currentIndex' = k - 1
              /\ ActiveSlides' = {k - 1}
              /\ ActiveDots' = {k}

C10_IndicatorsWired == [][C10_Step]_vars

C10_Witness ==
    /\ phase = "ready"
    /\ N = 3
    /\ Len(dots) = 3
    /\ lastEvent = "ClickDot"
    /\ currentIndex = 1
    /\ ActiveDots = {2}

\* C11: showSlide(index) with an index outside 0..N-1 (N >= 1) never leaves
\* currentIndex outside 0..N-1 nor the deck without an active slide.
C11_OutOfRangeContained ==
    phase = "ready" =>
        /\ currentIndex \in Indices
        /\ ActiveSlides # {}

\* C12: every input event runs one whole transition: a previous-control
\* click or ArrowLeft runs exactly one prevSlide(), a next-control click or
\* ArrowRight exactly one nextSlide(), any other key changes nothing; each
\* step starts from the state the preceding event left, so any interleaving
\* yields the sequential result in arrival order.
OnePrev ==
    /\ ops' = <<"prev">>
    /\ currentIndex \in Indices =>
          /\ currentIndex' = (currentIndex + N - 1) % N
          /\ ActiveSlides' = {currentIndex'}
          /\ ActiveDots' = {currentIndex' + 1}

OneNext ==
    /\ ops' = <<"next">>
    /\ currentIndex \in Indices =>
          /\ currentIndex' = (currentIndex + 1) % N
          /\ ActiveSlides' = {currentIndex'}
          /\ ActiveDots' = {currentIndex' + 1}

C12_Step ==
    /\ ClickPrev => OnePrev
    /\ KeyDown("ArrowLeft") => OnePrev
    /\ ClickNext => OneNext
    /\ KeyDown("ArrowRight") => OneNext
    /\ \A key \in Keys \ {"ArrowLeft", "ArrowRight"} :
          KeyDown(key) =>
              /\ ops' = <<>>
              /\ UNCHANGED <<currentIndex, slideActive, dots, lastThrew>>

C12_OneTransitionPerEvent == [][C12_Step]_vars

C12_Witness ==
    /\ phase = "ready"
    /\ N = 3
    /\ lastEvent = "KeyDown"
    /\ ops = <<"prev">>
    /\ currentIndex = 2
    /\ ActiveSlides = {2}

\* k applications of nextSlide()
RECURSIVE IterNext(_, _)
IterNext(s, k) == IF k = 0 THEN s ELSE IterNext(nextSlide(s), k - 1)

\* C13: for N >= 1 the slider starts at index 0, and in every state reached
\* by next, prev, indicator clicks, keys and swipes currentIndex is
\* in 0..N-1, nextSlide() and prevSlide() can run and land in 0..N-1 without
\* raising, and every index is reached from the current one.
C13_StateMachine ==
    phase = "ready" =>
        /\ N >= 1
        /\ lastEvent = "Construct" => currentIndex = 0
        /\ currentIndex \in Indices
        /\ ~lastThrew
        /\ ENABLED KeyDown("ArrowRight")
        /\ ENABLED KeyDown("ArrowLeft")
        /\ ~nextSlide(Self).threw /\ nextSlide(Self).currentIndex \in Indices
        /\ ~prevSlide(Self).threw /\ prevSlide(Self).currentIndex \in Indices
        /\ \A j \in Indices :
              \E k \in 0 .. N - 1 : IterNext(Self, k).currentIndex = j

C13_Witness ==
    /\ phase = "ready"
    /\ N = 3
    /\ lastEvent = "CallNextSlide"
    /\ currentIndex = 0
    /\ IterNext(Self, 2).currentIndex = 2

\* C14: in a consistent state nextSlide() and prevSlide() undo each other
\* (index, active slide and active indicator are restored), and showSlide(i)
\* applied again to its own result changes nothing.
SameDeck(s) ==
    /\ ~s.threw
    /\ s.currentIndex = currentIndex
    /\ s.slideActive = slideActive
    /\ s.dots = dots

C14_Step ==
    /\ (phase = "ready" /\ currentIndex \in Indices /\ ops' = <<"next">>)
          => SameDeck(prevSlide(Self'))
    /\ (phase = "ready" /\ currentIndex \in Indices /\ ops' = <<"prev">>)
          => SameDeck(nextSlide(Self'))
    /\ (phase = "ready" /\ ops' = <<"show">> /\ ~lastThrew')
          => SameDeck(showSlide(Self, currentIndex))'

C14_InverseAndIdempotent == [][C14_Step]_vars

C14_Witness ==
    /\ phase = "ready"
    /\ N = 3
    /\ lastEvent = "ClickPrev"
    /\ currentIndex = 2
    /\ nextSlide(Self).currentIndex = 0
    /\ SameDeck(prevSlide(nextSlide(Self)))

\* C17: any two consecutive runs of a throttled func are at least delay
\* apart; func runs only during a call, at the call's time; a call less than
\* delay after the last run does not run func, then or later; a call delay or
\* more after the last run runs func at once.
C17_Step ==
    /\ \A i \in 1 .. Len(thExecs') - 1 :
          thExecs'[i + 1] - thExecs'[i] >= thDelay
    /\ thExecs' # thExecs =>
          (now' = now /\ thExecs' = Append(thExecs, now))
    /\ (ThrottledCall /\ thExecs # <<>>
           /\ now - thExecs[Len(thExecs)] < thDelay)
          => (thExecs' = thExecs /\ thOutcome' = "dropped")
    /\ (ThrottledCall /\ thExecs # <<>>
           /\ now - thExecs[Len(thExecs)] >= thDelay)
          => (thExecs' = Append(thExecs, now) /\ thOutcome' = "ran")

C17_ThrottleRate == [][C17_Step]_vars

C17_Witness ==
    /\ thDelay = 2
    /\ Len(thExecs) = 2
    /\ thExecs[2] - thExecs[1] = 3
    /\ thOutcome = "dropped"
    /\ now = thExecs[2] + 1

\* C18: a debounced func has at most one timer pending; every call replaces
\* the pending timer by its own; func runs only delay after the last call,
\* with that call's arguments, never while a call arrived within the
\* preceding delay, at most once per burst, and every burst does end in a run.
C18_Step ==
    /\ Cardinality(pending') <= 1
    /\ \A arg \in Args :
          DebouncedCall(arg) =>
              pending' = {[id |-> timeoutId', due |-> now + dbDelay,
                           arg |-> arg]}
    /\ dbRuns' # dbRuns =>
          /\ dbRuns' = Append(dbRuns, [time |-> dbLastCall.time + dbDelay,
                                       arg  |-> dbLastCall.arg])
          /\ now = dbLastCall.time + dbDelay
          /\ now - dbLastCall.time >= dbDelay
          /\ \A i \in 1 .. Len(dbRuns) : dbRuns[i].time <= dbLastCall.time
          /\ pending' = {}

C18_Debounce ==
    /\ [][C18_Step]_vars
    /\ \A n \in 0 .. MaxCalls :
          (pending # {} /\ Len(dbRuns) = n) ~> (Len(dbRuns) > n)

C18_Witness ==
    /\ dbDelay = 2
    /\ nextTimeoutId = 4
    /\ Len(dbRuns) = 2
    /\ dbRuns[1] = [time |-> 3, arg |-> "b"]
    /\ dbRuns[2].arg = "a"
    /\ pending = {}

\* C16: animateValue() starts at most once per card; it starts only in a
\* check that finds a card in the viewport which was not yet in hasAnimated;
\* a card whose animation started is in hasAnimated; no card ever leaves
\* hasAnimated.
C16_Step ==
    /\ hasAnimated \subseteq hasAnimated'
    /\ \A e \in Elems :
          /\ started'[e] <= 1
          /\ started'[e] >= started[e]
          /\ started'[e] >= 1 => e \in hasAnimated'
          /\ started'[e] > started[e] =>
                (e \notin hasAnimated /\ inView'[e] /\ thOutcome' = "ran")

C16_AnimateOnce == [][C16_Step]_vars

C16_Witness ==
    /\ started[1] = 1
    /\ 1 \in hasAnimated
    /\ inView[1]
    /\ thOutcome = "ran"
    /\ Len(thExecs) >= 2
    /\ started[2] = 0

\* C15: every [data-aos] element has at most one reveal timeout set over
\* its lifetime, and once it carries 'aos-animate' it keeps the class and no
\* further timeout is set for it.
C15_Step ==
    \A e \in Elems :
        /\ scheduled'[e] <= 1
        /\ e \in aosClass =>
              (e \in aosClass' /\ scheduled'[e] = scheduled[e])

C15_RevealScheduledOnce == [][C15_Step]_vars

====
